---- MODULE Spec2Model ----
(***************************************************************************)
(* A model of the image-translation bot: the multi-script text detector    *)
(* with its lazily filled reader cache (utils/ocr.py), the batch           *)
(* translator (utils/translator.py) and the image compositor               *)
(* (utils/image_edit.py).                                                  *)
(*                                                                         *)
(* Confidences are percentages (0..100 stands for 0.0..1.0) and scores are *)
(* exact fractions <<numerator, denominator>>; strings are sequences of    *)
(* characters, so that strip() is computed and not assumed.                *)
(***************************************************************************)
EXTENDS Integers, Sequences, FiniteSets

\* ------------------------------------------------------------------ bounds
\* How many of the script families, in enumeration order, are configured.
NumGroups == 3
\* Longest raw result list one reader returns for one image.
MaxRegions == 2
\* Longest list of texts handed to translate_batch.
MaxTexts == 2
\* Most regions handed to render_translated_image.
MaxRenderRegions == 2
\* Width and height of the images rendered, in pixels.
ImgW == 24
ImgH == 24

\* The highest bounding box whose font-size search is gone through.
MaxBoxH == 40

\* The users that read and write their preference.
NumUsers == 2

\* -------------------------------------------------------------- utilities
Range(s) == {s[i] : i \in 1..Len(s)}

SeqsUpTo(S, n) == UNION {[1..k -> S] : k \in 0..n}

Min(S) == CHOOSE x \in S : \A y \in S : x <= y

Max(S) == CHOOSE x \in S : \A y \in S : x >= y

\* Python's str.strip() on a sequence of characters
RECURSIVE LStrip(_)
LStrip(s) == IF s # <<>> /\ Head(s) = " " THEN LStrip(Tail(s)) ELSE s

RECURSIVE RStrip(_)
RStrip(s) ==
    IF s # <<>> /\ s[Len(s)] = " " THEN RStrip(SubSeq(s, 1, Len(s) - 1)) ELSE s

Strip(s) == RStrip(LStrip(s))

\* ------------------------------------------------------- utils/ocr.py: data
\* The script families in the order the dictionary enumerates them.
READER_CONFIGS ==
    <<"latin", "chinese", "japanese", "korean", "cyrillic", "arabic", "devanagari">>

Groups == SubSeq(READER_CONFIGS, 1, NumGroups)

GroupSet == Range(Groups)

\* The executor's worker threads that run detect_text.
Workers == {"w1", "w2"}

\* No cached reader / no instance.
NoReader == "none"

\* Confidences a reader reports, in percent.
Confs == {0, 100}

\* Texts a reader reports before stripping.
OcrTexts == {<<" ">>, <<" ", "a">>}

OcrBox == <<<<0, 0>>, <<1, 0>>, <<1, 1>>, <<0, 1>>>>

\* One raw detection (bbox, text, confidence) of reader.readtext.
RawDetections == [bbox : {OcrBox}, text : OcrTexts, confidence : Confs]

\* Every result list a reader may return for an image.
RichResults == SeqsUpTo(RawDetections, MaxRegions)

\* The result list of an image with one clear line of text that every reader
\* finds.
PlainResults ==
    {<<[bbox |-> OcrBox, text |-> <<" ", "a">>, confidence |-> 100]>>}

VARIABLES
    readers,       \* _readers: family -> cached instance, or NoReader
    built,         \* history: family -> the instances ever constructed for it
    ctorFailed,    \* history: the families whose construction has failed
    failedBefore,  \* history: worker -> ctorFailed when its detection started
    dpc,           \* worker -> where it is in detect_text
    grp,           \* worker -> index in Groups of the loop variable group
    pending,       \* worker -> the instance easyocr.Reader() returned, not yet stored
    reader,        \* worker -> the local variable reader
    best_regions,  \* worker -> best_regions
    best_score,    \* worker -> best_score, a fraction
    best_group,    \* worker -> best_group
    outcome,       \* history: worker -> family -> what its reader gave in this call
    tpc,           \* where translate_batch is
    texts,         \* its argument texts
    out,           \* the list it returns, as built so far
    batchCalls,    \* history: calls of the backend's translate_batch
    textCalls,     \* history: index -> calls of translate_text on that element
    singleCalls,   \* history: index -> calls of the backend's translate on it
    sent,          \* history: the indices of the elements handed to the backend
    backend,       \* history: index -> what the backend last answered for it
    rpc,           \* where render_translated_image is
    image,         \* the canvas: pixel -> colour
    original,      \* history: which of the input images was decoded
    region_boxes,  \* its argument regions, as their bounding polygons
    ntexts,        \* the length of its argument translated_texts
    ri,            \* the index of the region being rendered
    bg_color,      \* bg_color of the current region
    font_size,     \* font_size in _fit_text_in_bbox
    inked,         \* history: the text blocks drawn, as rectangles
    tried,         \* history: the sizes measured in this call of _fit_text_in_bbox
    drawn,         \* history: the sizes draw.multiline_text was called at in it
    result,        \* the PNG it returns
    storage,       \* the file _PREFS_FILE on disk
    latest,        \* history: user -> the language of its last set_lang that returned
    lastOp         \* history: the last call of get_lang or set_lang and how it ended

detVars ==
    <<readers, built, ctorFailed, failedBefore, dpc, grp, pending, reader,
      best_regions, best_score, best_group, outcome>>

trVars == <<tpc, texts, out, batchCalls, textCalls, singleCalls, sent, backend>>

rnVars ==
    <<rpc, image, original, region_boxes, ntexts, ri, bg_color, font_size, inked,
      tried, drawn, result>>

prVars == <<storage, latest, lastOp>>

vars == <<detVars, trVars, rnVars, prVars>>

\* ---------------------------------------------------- utils/ocr.py: helpers
\* _run_reader, lines 52-57: keep the detections whose text is not blank,
\* with the text stripped.
RunReaderStripNone(results) ==
    [i \in 1..Len(results) |->
        [bbox |-> results[i].bbox, text |-> Strip(results[i].text),
         confidence |-> results[i].confidence]]

RunReaderFilter(results) ==
    LET kept == SelectSeq(results, LAMBDA r : Strip(r.text) # <<>>)
    IN  [i \in 1..Len(kept) |->
            [bbox |-> kept[i].bbox, text |-> Strip(kept[i].text),
             confidence |-> kept[i].confidence]]

RECURSIVE SumConf(_)
SumConf(regions) ==
    IF regions = <<>> THEN 0 ELSE Head(regions).confidence + SumConf(Tail(regions))

\* fractions <<n, d>> with d > 0
FracGt(a, b) == a[1] * b[2] > b[1] * a[2]

\* line 90: avg_conf = sum(r.confidence for r in regions) / len(regions)
AvgConf(regions) == <<SumConf(regions), Len(regions)>>

\* line 91: score = len(regions) * avg_conf
Score(regions) == <<Len(regions) * AvgConf(regions)[1], AvgConf(regions)[2]>>

\* line 78
InitialBestScore == <<0, 1>>

\* line 98: if score > best_score
ReplacesBest(score, best) == FracGt(score, best)

\* ------------------------------------------------ utils/ocr.py: detect_text
Pending == [kind |-> "pending", regions |-> <<>>, texts |-> 0]

\* How many raw detections carry text that is not blank.
TextCount(results) ==
    Cardinality({i \in 1..Len(results) :
                    \E j \in 1..Len(results[i].text) : results[i].text[j] # " "})

InitDetection ==
    /\ readers = [g \in GroupSet |-> NoReader]
    /\ built = [g \in GroupSet |-> {}]
    /\ ctorFailed = {}
    /\ failedBefore = [t \in Workers |-> {}]
    /\ dpc = [t \in Workers |-> "idle"]
    /\ grp = [t \in Workers |-> 1]
    /\ pending = [t \in Workers |-> NoReader]
    /\ reader = [t \in Workers |-> NoReader]
    /\ best_regions = [t \in Workers |-> <<>>]
    /\ best_score = [t \in Workers |-> InitialBestScore]
    /\ best_group = [t \in Workers |-> "unknown"]
    /\ outcome = [t \in Workers |-> [g \in GroupSet |-> Pending]]

\* lines 74-79: decode the image, initialise the best-so-far accumulator and
\* enter the loop with the first family.
DetectStart(t) ==
    /\ dpc[t] = "idle"
    /\ dpc' = [dpc EXCEPT ![t] = "check"]
    /\ grp' = [grp EXCEPT ![t] = 1]
    /\ best_regions' = [best_regions EXCEPT ![t] = <<>>]
    /\ best_score' = [best_score EXCEPT ![t] = InitialBestScore]
    /\ best_group' = [best_group EXCEPT ![t] = "unknown"]
    /\ outcome' = [outcome EXCEPT ![t] = [g \in GroupSet |-> Pending]]
    /\ failedBefore' = [failedBefore EXCEPT ![t] = ctorFailed]
    /\ UNCHANGED <<readers, built, ctorFailed, pending, reader>>
    /\ UNCHANGED <<trVars, rnVars, prVars>>

\* line 81: the next iteration of "for group in _READER_CONFIGS", or, after
\* the last family, lines 107-108.
NextGroup(pcs, grps, t) ==
    IF grps[t] = NumGroups
    THEN /\ dpc' = [pcs EXCEPT ![t] = "done"]
         /\ grp' = grps
    ELSE /\ dpc' = [pcs EXCEPT ![t] = "check"]
         /\ grp' = [grps EXCEPT ![t] = grps[t] + 1]

\* lines 103-105: except Exception: log and continue with the next family.
\* `kind` says which call raised: "ctor_error" (line 83) or "run_error" (line 84).
SkipRaise(t, kind) ==
    /\ outcome' = [outcome EXCEPT ![t][Groups[grp[t]]] =
                      [kind |-> kind, regions |-> <<>>, texts |-> 0]]
    /\ dpc' = [dpc EXCEPT ![t] = "raised"]
    /\ UNCHANGED grp

SkipFamily(t, kind) ==
    /\ outcome' = [outcome EXCEPT ![t][Groups[grp[t]]] =
                      [kind |-> kind, regions |-> <<>>, texts |-> 0]]
    /\ NextGroup(dpc, grp, t)

\* line 39: if group not in _readers
CachedOrFailed(g) == readers[g] # NoReader \/ g \in ctorFailed

Cached(g) == readers[g] # NoReader

GetReaderCheck(t) ==
    /\ dpc[t] = "check"
    /\ dpc' = [dpc EXCEPT ![t] = IF Cached(Groups[grp[t]]) THEN "ret" ELSE "construct"]
    /\ UNCHANGED <<readers, built, ctorFailed, failedBefore, grp, pending, reader,
                   best_regions, best_score, best_group, outcome>>
    /\ UNCHANGED <<trVars, rnVars, prVars>>

\* line 44, right-hand side: easyocr.Reader(langs, gpu=False) returns a new
\* instance (named after the worker that built it) or raises.
GetReaderConstruct(t) ==
    /\ dpc[t] = "construct"
    /\ \/ /\ pending' = [pending EXCEPT ![t] = t]
          /\ built' = [built EXCEPT ![Groups[grp[t]]] = @ \cup {t}]
          /\ dpc' = [dpc EXCEPT ![t] = "store"]
          /\ UNCHANGED <<ctorFailed, grp, outcome>>
       \/ /\ ctorFailed' = ctorFailed \cup {Groups[grp[t]]}
          /\ SkipFamily(t, "ctor_error")
          /\ UNCHANGED <<pending, built>>
    /\ UNCHANGED <<readers, failedBefore, reader, best_regions, best_score, best_group>>
    /\ UNCHANGED <<trVars, rnVars, prVars>>

\* line 44, the assignment: _readers[group] = <the new instance>
GetReaderStore(t) ==
    /\ dpc[t] = "store"
    /\ readers' = [readers EXCEPT ![Groups[grp[t]]] = pending[t]]
    /\ pending' = [pending EXCEPT ![t] = NoReader]
    /\ dpc' = [dpc EXCEPT ![t] = "ret"]
    /\ UNCHANGED <<built, ctorFailed, failedBefore, grp, reader,
                   best_regions, best_score, best_group, outcome>>
    /\ UNCHANGED <<trVars, rnVars, prVars>>

\* line 46: return _readers[group]
GetReaderReturn(t) ==
    /\ dpc[t] = "ret"
    /\ reader' = [reader EXCEPT ![t] = readers[Groups[grp[t]]]]
    /\ dpc' = [dpc EXCEPT ![t] = "run"]
    /\ UNCHANGED <<readers, built, ctorFailed, failedBefore, grp, pending,
                   best_regions, best_score, best_group, outcome>>
    /\ UNCHANGED <<trVars, rnVars, prVars>>

\* lines 84-101: run the reader on the image; it raises, or it returns one of
\* the result lists `results`, which is filtered, scored and compared with
\* the best so far.
RunReader(t, results) ==
    /\ dpc[t] = "run"
    /\ \/ /\ SkipFamily(t, "run_error")
          /\ UNCHANGED <<best_regions, best_score, best_group>>
       \/ \E raw \in results :
            LET regions == RunReaderFilter(raw)
                g == Groups[grp[t]]
                better == regions # <<>> /\ ReplacesBest(Score(regions), best_score[t])
            IN  /\ outcome' = [outcome EXCEPT ![t][g] =
                       [kind |-> "ok", regions |-> regions, texts |-> TextCount(raw)]]
                /\ best_score' =
                       [best_score EXCEPT ![t] = IF better THEN Score(regions) ELSE @]
                /\ best_regions' =
                       [best_regions EXCEPT ![t] = IF better THEN regions ELSE @]
                /\ best_group' = [best_group EXCEPT ![t] = IF better THEN g ELSE @]
                /\ NextGroup(dpc, grp, t)
    /\ reader' = [reader EXCEPT ![t] = NoReader]
    /\ UNCHANGED <<readers, built, ctorFailed, failedBefore, pending>>
    /\ UNCHANGED <<trVars, rnVars, prVars>>

\* detect_text as a function of what each family's reader gave: the loop of
\* lines 77-108 over the first k families.
RECURSIVE DetectFold(_, _)
DetectFold(outs, k) ==
    IF k = 0
    THEN [regions |-> <<>>, score |-> InitialBestScore, group |-> "unknown"]
    ELSE LET prev == DetectFold(outs, k - 1)
             regions == outs[Groups[k]]
         IN  IF regions # <<>> /\ ReplacesBest(Score(regions), prev.score)
             THEN [regions |-> regions, score |-> Score(regions), group |-> Groups[k]]
             ELSE prev

\* ------------------------------------------------------ utils/translator.py
\* What the backend may answer for one text: None, the empty string, a
\* translation; Raised stands for a call that raises.
NoneValue == <<"<None>">>

Raised == <<"<raise>">>

NotCalled == <<"<not called>">>

BackendValues == {NoneValue, <<>>, <<"x">>}

\* The texts handed to translate_batch.
TranslatorTexts == {<<>>, <<" ">>, <<" ", " ">>, <<"h", "i">>, <<" ", "h">>}

\* Python truthiness of a backend answer: "r if r else t", "translated or text"
Truthy(r) == r # NoneValue /\ r # <<>>

\* line 22: if not text.strip()
IsBlank(text) == Strip(text) = <<>>

\* line 51: [r if r else t for r, t in zip(results, texts)]
ZipResults(results, ts) ==
    [i \in 1..Min({Len(results), Len(ts)}) |->
        IF Truthy(results[i]) THEN results[i] ELSE ts[i]]

\* lines 24-29: what translate_text returns for a text that is not blank when
\* the backend answers `res`.
TranslateTextKeepsEmpty(text, res) == IF res = Raised THEN text ELSE res

TranslateTextResult(text, res) ==
    IF res = Raised THEN text ELSE IF Truthy(res) THEN res ELSE text

InitTranslate ==
    /\ tpc = "idle"
    /\ texts = <<>>
    /\ out = <<>>
    /\ batchCalls = 0
    /\ textCalls = <<>>
    /\ singleCalls = <<>>
    /\ sent = {}
    /\ backend = <<>>

\* lines 44-45: translate_batch is called with a list of texts; an empty list
\* is answered at once.
TranslateBatchStart ==
    /\ tpc = "idle"
    /\ \E ts \in SeqsUpTo(TranslatorTexts, MaxTexts) :
          /\ texts' = ts
          /\ textCalls' = [i \in 1..Len(ts) |-> 0]
          /\ singleCalls' = [i \in 1..Len(ts) |-> 0]
          /\ backend' = [i \in 1..Len(ts) |-> NotCalled]
          /\ tpc' = IF ts = <<>> THEN "done" ELSE "batch"
    /\ UNCHANGED <<out, batchCalls, sent, detVars, rnVars, prVars>>

\* lines 47-53: the backend is built and called with the whole list. It
\* raises (or answers something that is no list, on which zip raises), and
\* the handler starts the element-wise fallback; or it answers a list of any
\* length, which is zipped with the texts and returned.
TranslateBatchCall ==
    /\ tpc = "batch"
    /\ batchCalls' = batchCalls + 1
    /\ sent' = sent \cup (1..Len(texts))
    /\ \/ /\ tpc' = "fallback"
          /\ backend' = [i \in 1..Len(texts) |-> Raised]
          /\ UNCHANGED out
       \/ \E results \in SeqsUpTo(BackendValues, Len(texts) + 1) :
            /\ out' = ZipResults(results, texts)
            /\ backend' = [i \in 1..Len(texts) |->
                              IF i <= Len(results) THEN results[i] ELSE NotCalled]
            /\ tpc' = "done"
    /\ UNCHANGED <<texts, textCalls, singleCalls, detVars, rnVars, prVars>>

\* line 54, one element of the comprehension: translate_text (lines 22-29) on
\* the next text. A blank text is returned as it is; any other goes to the
\* backend, which raises or answers.
TranslateTextStep ==
    /\ tpc = "fallback"
    /\ LET i == Len(out) + 1
           text == texts[i]
       IN  /\ textCalls' = [textCalls EXCEPT ![i] = @ + 1]
           /\ \/ /\ IsBlank(text)
                 /\ out' = Append(out, text)
                 /\ backend' = [backend EXCEPT ![i] = NotCalled]
                 /\ UNCHANGED <<singleCalls, sent>>
              \/ /\ ~IsBlank(text)
                 /\ singleCalls' = [singleCalls EXCEPT ![i] = @ + 1]
                 /\ sent' = sent \cup {i}
                 /\ \E res \in BackendValues \cup {Raised} :
                       /\ out' = Append(out, TranslateTextResult(text, res))
                       /\ backend' = [backend EXCEPT ![i] = res]
           /\ tpc' = IF i = Len(texts) THEN "done" ELSE "fallback"
    /\ UNCHANGED <<texts, batchCalls, detVars, rnVars, prVars>>


\* ------------------------------------------------------ utils/image_edit.py
\* An image is the array np.array(image): row y, column x, each pixel an RGB
\* colour packed into one number; rows and columns are numbered from 0.
Color(r, g, b) == r * 65536 + g * 256 + b

Channel(v, c) ==
    IF c = 1 THEN v \div 65536 ELSE IF c = 2 THEN (v \div 256) % 256 ELSE v % 256

Pixels == (0..(ImgW - 1)) \X (0..(ImgH - 1))

Pix(img, p) == img[p[2] + 1][p[1] + 1]

White == Color(255, 255, 255)

Black == Color(0, 0, 0)

Red == Color(255, 0, 0)

\* The decoded input images: one colour all over, or one colour inside the
\* rectangle 6..19 x 6..17 and another around it.
Framed(inner, outer) ==
    [y \in 1..ImgH |-> [x \in 1..ImgW |->
        IF (x - 1) \in 6..19 /\ (y - 1) \in 6..17 THEN inner ELSE outer]]

ImageNames == {"white", "white_in_black", "red_in_white"}

ImageOf(name) ==
    CASE name = "white" -> Framed(White, White)
      [] name = "white_in_black" -> Framed(White, Black)
      [] name = "red_in_white" -> Framed(Red, White)

\* The bounding polygons of the regions: a small and a large axis-aligned
\* rectangle, a diamond, and a polygon without width far outside the image.
SmallRect == <<<<10, 10>>, <<15, 10>>, <<15, 13>>, <<10, 13>>>>

LargeRect == <<<<4, 5>>, <<20, 5>>, <<20, 19>>, <<4, 19>>>>

Diamond == <<<<12, 4>>, <<20, 12>>, <<12, 20>>, <<4, 12>>>>

FarFlatLine == <<<<40, 40>>, <<40, 40>>, <<40, 44>>, <<40, 44>>>>

Polygons == {SmallRect, LargeRect, Diamond, FarFlatLine}

\* The axis-aligned rectangle with a corner at (x, y), w wide and h high.
Rect(x, y, w, h) == <<<<x, y>>, <<x + w, y>>, <<x + w, y + h>>, <<x, y + h>>>>

\* Bounding polygons of every height from 0 to MaxBoxH: without width,
\* narrower than every text, and wide.
FitWidths == {0, 5, 16}

FitPolygons == {Rect(4, 0, w, h) : w \in FitWidths, h \in 0..MaxBoxH}

\* What draw.multiline_textbbox((0, 0), wrapped, font) may measure for a text
\* at a font size, as (left, top, right, bottom): nothing, a small block, a
\* middle one, a block wider than every box.
TextBoxes == {<<0, 0, 0, 0>>, <<0, 2, 5, 7>>, <<1, 2, 11, 10>>, <<0, 3, 31, 11>>}

XCoords(bbox) == {bbox[i][1] : i \in 1..4}

YCoords(bbox) == {bbox[i][2] : i \in 1..4}

\* line 47: border_px: int = 4
BorderPx == 4

\* line 123
Padding == 2

\* lines 59-62
SampleXMin(bbox, bp) == Max({0, Min(XCoords(bbox)) - bp})

SampleXMax(bbox, bp) == Min({ImgW - 1, Max(XCoords(bbox)) + bp})

SampleYMin(bbox, bp) == Max({0, Min(YCoords(bbox)) - bp})

SampleYMax(bbox, bp) == Min({ImgH - 1, Max(YCoords(bbox)) + bp})

\* range(a, b) of Python
PyRange(a, b) == a..(b - 1)

\* lines 66-85: the pixels (x, y) of the four bands appended to
\* border_pixels. A pixel in two bands is appended twice, so the bands are
\* kept apart.
TopBand(bbox, bp) ==
    IF SampleYMin(bbox, bp) >= 0
    THEN PyRange(SampleXMin(bbox, bp), SampleXMax(bbox, bp) + 1)
            \X PyRange(Max({0, SampleYMin(bbox, bp) - bp}),
                       Min({ImgH, SampleYMin(bbox, bp) + 1}))
    ELSE {}

BottomBand(bbox, bp) ==
    IF SampleYMax(bbox, bp) < ImgH
    THEN PyRange(SampleXMin(bbox, bp), SampleXMax(bbox, bp) + 1)
            \X PyRange(Max({0, SampleYMax(bbox, bp)}),
                       Min({ImgH, SampleYMax(bbox, bp) + bp + 1}))
    ELSE {}

LeftBand(bbox, bp) ==
    IF SampleXMin(bbox, bp) >= 0
    THEN PyRange(Max({0, SampleXMin(bbox, bp) - bp}),
                 Min({ImgW, SampleXMin(bbox, bp) + 1}))
            \X PyRange(SampleYMin(bbox, bp), SampleYMax(bbox, bp) + 1)
    ELSE {}

RightBand(bbox, bp) ==
    IF SampleXMax(bbox, bp) < ImgW
    THEN PyRange(Max({0, SampleXMax(bbox, bp)}),
                 Min({ImgW, SampleXMax(bbox, bp) + bp + 1}))
            \X PyRange(SampleYMin(bbox, bp), SampleYMax(bbox, bp) + 1)
    ELSE {}

Bands(bbox, bp) ==
    <<TopBand(bbox, bp), BottomBand(bbox, bp), LeftBand(bbox, bp), RightBand(bbox, bp)>>

\* border_pixels as a bag: how often each colour was appended.
SampleHistogram(img, bbox, bp) ==
    LET b == Bands(bbox, bp)
        colours == {Pix(img, p) : p \in b[1] \cup b[2] \cup b[3] \cup b[4]}
        n(S, v) == Cardinality({p \in S : Pix(img, p) = v})
    IN  [v \in colours |-> n(b[1], v) + n(b[2], v) + n(b[3], v) + n(b[4], v)]

RECURSIVE HistSize(_, _)
HistSize(hist, vs) ==
    IF vs = {} THEN 0
    ELSE LET v == CHOOSE u \in vs : TRUE
         IN  hist[v] + HistSize(hist, vs \ {v})

\* How many samples have channel c at most x.
CountAtMost(hist, c, x) ==
    HistSize(hist, {v \in DOMAIN hist : Channel(v, c) <= x})

\* The k-th smallest value of channel c among the samples.
OrderStat(hist, c, k) ==
    Min({Channel(v, c) : v \in {u \in DOMAIN hist :
                                    CountAtMost(hist, c, Channel(u, c)) >= k}})

\* lines 90-92: np.median(colors, axis=0).astype(int), one channel: the
\* middle sample, or the mean of the two middle ones, truncated.
MedianChannel(hist, c) ==
    LET n == HistSize(hist, DOMAIN hist)
    IN  IF n % 2 = 1
        THEN OrderStat(hist, c, (n + 1) \div 2)
        ELSE (OrderStat(hist, c, n \div 2) + OrderStat(hist, c, n \div 2 + 1)) \div 2

\* _sample_background_color, lines 46-92
SampleBackgroundColor(img, bbox, bp) ==
    LET hist == SampleHistogram(img, bbox, bp)
    IN  IF DOMAIN hist = {}
        THEN White
        ELSE Color(MedianChannel(hist, 1), MedianChannel(hist, 2),
                   MedianChannel(hist, 3))

\* _get_text_color, lines 95-98: luminance > 128, in thousandths
GetTextColor(bg) ==
    IF 299 * Channel(bg, 1) + 587 * Channel(bg, 2) + 114 * Channel(bg, 3) > 128000
    THEN Black
    ELSE White

\* Which side of the edge a -> b the point p lies on.
Cross(a, b, p) == (b[1] - a[1]) * (p[2] - a[2]) - (b[2] - a[2]) * (p[1] - a[1])

\* The pixels draw.polygon covers: those inside the convex quadrilateral or on
\* its boundary.
InsideQuad(p, bbox) ==
    \/ \A i \in 1..4 : Cross(bbox[i], bbox[(i % 4) + 1], p) >= 0
    \/ \A i \in 1..4 : Cross(bbox[i], bbox[(i % 4) + 1], p) <= 0

\* The axis-aligned rectangle that encloses the polygon, as
\* <<x_min, y_min, x_max, y_max>>.
BoundingRect(bbox) ==
    <<Min(XCoords(bbox)), Min(YCoords(bbox)), Max(XCoords(bbox)), Max(YCoords(bbox))>>

InRect(p, r) == r[1] <= p[1] /\ p[1] <= r[3] /\ r[2] <= p[2] /\ p[2] <= r[4]

\* lines 194-195: draw.polygon(polygon, fill=bg_color)
FillBoundingRect(img, bbox, color) ==
    LET r == BoundingRect(bbox)
    IN  [y \in 1..ImgH |-> [x \in 1..ImgW |->
            IF InRect(<<x - 1, y - 1>>, r) THEN color ELSE img[y][x]]]

FillPolygon(img, bbox, color) ==
    [y \in 1..ImgH |-> [x \in 1..ImgW |->
        IF InsideQuad(<<x - 1, y - 1>>, bbox) THEN color ELSE img[y][x]]]

\* lines 112-115
BoxX(bbox) == Min(XCoords(bbox))

BoxY(bbox) == Min(YCoords(bbox))

BoxW(bbox) == Max(XCoords(bbox)) - BoxX(bbox)

BoxH(bbox) == Max(YCoords(bbox)) - BoxY(bbox)

StartFontSizeRounded(box_h) == Max({8, (box_h * 85 + 50) \div 100})

\* line 121: max(8, int(box_h * 0.85))
StartFontSize(box_h) == Max({8, (box_h * 85) \div 100})

\* line 122: max(6, int(box_h * 0.2))
MinFontSize(box_h) == Max({6, (box_h * 2) \div 10})

\* lines 137-138
TextW(m) == m[3] - m[1]

TextH(m) == m[4] - m[2]

\* line 140
Fits(m, bbox) ==
    /\ TextW(m) <= BoxW(bbox) - 2 * Padding
    /\ TextH(m) <= BoxH(bbox) - 2 * Padding

\* lines 142-143 and 159-160
TextX(m, bbox) == BoxX(bbox) + (BoxW(bbox) - TextW(m)) \div 2

TextY(m, bbox) == BoxY(bbox) + (BoxH(bbox) - TextH(m)) \div 2

\* The block draw.multiline_text((text_x, text_y), ...) draws, as the
\* rectangle <<x0, y0, x1, y1>> of its pixels x0 <= x < x1, y0 <= y < y1: the
\* measured box moved to the anchor.
TextBlock(m, bbox) ==
    <<TextX(m, bbox) + m[1], TextY(m, bbox) + m[2],
      TextX(m, bbox) + m[3], TextY(m, bbox) + m[4]>>

InBlock(p, blk) == blk[1] <= p[1] /\ p[1] < blk[3] /\ blk[2] <= p[2] /\ p[2] < blk[4]

\* lines 144-146 and 161-163: the drawing is cut to the image.
DrawText(img, m, bbox, color) ==
    LET blk == TextBlock(m, bbox)
    IN  [y \in 1..ImgH |-> [x \in 1..ImgW |->
            IF InBlock(<<x - 1, y - 1>>, blk) THEN color ELSE img[y][x]]]

\* line 189: zip(regions, translated_texts)
RegionCount == Min({Len(region_boxes), ntexts})

InitRender ==
    /\ rpc = "idle"
    /\ image = ImageOf("white")
    /\ original = "white"
    /\ region_boxes = <<>>
    /\ ntexts = 0
    /\ ri = 1
    /\ bg_color = White
    /\ font_size = 0
    /\ inked = {}
    /\ tried = <<>>
    /\ drawn = <<>>
    /\ result = [format |-> "none", pixels |-> <<>>]

\* After the last region, or after the one just rendered: the next turn of
\* the loop of line 189, or lines 201-205.
NextRegion(i, n) == IF i >= n THEN "save" ELSE "sample"

\* lines 186-189: decode the image and start the loop over the pairs.
RenderStart(names, polygons, maxRegions) ==
    /\ rpc = "idle"
    /\ \E name \in names, rs \in SeqsUpTo(polygons, maxRegions) :
          \E nt \in {n \in {Len(rs) - 1, Len(rs)} : n >= 0} :
              /\ image' = ImageOf(name)
              /\ original' = name
              /\ region_boxes' = rs
              /\ ntexts' = nt
              /\ rpc' = NextRegion(0, Min({Len(rs), nt}))
    /\ ri' = 1
    /\ UNCHANGED <<bg_color, font_size, inked, tried, drawn, result, detVars, trVars, prVars>>

\* line 193: bg_color = _sample_background_color(image, bbox)
RenderSample ==
    /\ rpc = "sample"
    /\ bg_color' = SampleBackgroundColor(image, region_boxes[ri], BorderPx)
    /\ rpc' = "fill"
    /\ UNCHANGED <<image, original, region_boxes, ntexts, ri, font_size, inked,
                   tried, drawn, result, detVars, trVars, prVars>>

\* lines 194-198 and 110-123: fill the polygon, choose the text colour, and
\* enter _fit_text_in_bbox, which returns at once for a box without width or
\* height.
RenderFill ==
    /\ rpc = "fill"
    /\ image' = FillPolygon(image, region_boxes[ri], bg_color)
    /\ IF BoxW(region_boxes[ri]) <= 0 \/ BoxH(region_boxes[ri]) <= 0
       THEN /\ rpc' = NextRegion(ri, RegionCount)
            /\ ri' = ri + 1
            /\ UNCHANGED font_size
       ELSE /\ rpc' = "fit"
            /\ font_size' = StartFontSize(BoxH(region_boxes[ri]))
            /\ UNCHANGED ri
    /\ tried' = <<>>
    /\ drawn' = <<>>
    /\ UNCHANGED <<original, region_boxes, ntexts, bg_color, inked, result,
                   detVars, trVars, prVars>>

\* line 149: font_size -= 1
NextFontSize(size) == size - 1

FallbackFontSizeReached(size, box_h) == size

\* line 152: font = _find_font(min_font_size)
FallbackFontSize(size, box_h) == MinFontSize(box_h)

\* lines 125-149: one turn of the loop: measure the wrapped text at
\* font_size; draw it and return when it fits, else try one size less.
FitTry ==
    /\ rpc = "fit"
    /\ font_size >= MinFontSize(BoxH(region_boxes[ri]))
    /\ \E m \in TextBoxes :
          /\ tried' = Append(tried, [size |-> font_size,
                                     fits |-> Fits(m, region_boxes[ri])])
          /\ IF Fits(m, region_boxes[ri])
             THEN /\ image' = DrawText(image, m, region_boxes[ri], GetTextColor(bg_color))
                  /\ inked' = inked \cup {TextBlock(m, region_boxes[ri])}
                  /\ drawn' = Append(drawn, font_size)
                  /\ rpc' = NextRegion(ri, RegionCount)
                  /\ ri' = ri + 1
                  /\ UNCHANGED font_size
             ELSE /\ font_size' = NextFontSize(font_size)
                  /\ UNCHANGED <<image, inked, drawn, rpc, ri>>
    /\ UNCHANGED <<original, region_boxes, ntexts, bg_color, result, detVars, trVars, prVars>>

\* lines 151-163: no size fitted: draw at the minimum size anyway.
FitFallback ==
    /\ rpc = "fit"
    /\ font_size < MinFontSize(BoxH(region_boxes[ri]))
    /\ \E m \in TextBoxes :
          /\ image' = DrawText(image, m, region_boxes[ri], GetTextColor(bg_color))
          /\ inked' = inked \cup {TextBlock(m, region_boxes[ri])}
    /\ drawn' = Append(drawn, FallbackFontSize(font_size, BoxH(region_boxes[ri])))
    /\ rpc' = NextRegion(ri, RegionCount)
    /\ ri' = ri + 1
    /\ UNCHANGED <<original, region_boxes, ntexts, bg_color, font_size, tried, result,
                   detVars, trVars, prVars>>

\* lines 201-205: encode the canvas as PNG, which keeps every pixel, and
\* return it.
RenderSave ==
    /\ rpc = "save"
    /\ result' = [format |-> "PNG", pixels |-> image]
    /\ rpc' = "done"
    /\ UNCHANGED <<image, original, region_boxes, ntexts, ri, bg_color, font_size, inked,
                   tried, drawn, detVars, trVars, prVars>>

\* ------------------------------------------------- utils/user_prefs.py
Users == 1..NumUsers

\* config.py line 7
DEFAULT_LANGUAGE == "en"

\* config.py lines 10-47: some of the codes of SUPPORTED_LANGUAGES, the only
\* values SettingsCog.setlang hands to set_lang.
Langs == {"en", "ja", "es"}

Digits == <<"0", "1", "2", "3", "4", "5", "6", "7", "8", "9">>

\* lines 41 and 53: str(user_id), for an id of one digit.
Str(user_id) == Digits[user_id + 1]

Keys == {Str(u) : u \in Users}

\* An object of the file, or a dict: key -> language, or Absent.
Absent == "<absent>"

EmptyDict == [k \in Keys |-> Absent]

\* What the file holds: bytes that are not UTF-8, text that is not JSON, a
\* JSON value that is not an object (an array), or a JSON object.
ContentKinds == {"not_utf8", "not_json", "array", "object"}

\* lines 12-13: the file is missing, or it is there, the process may or may
\* not read it and write it, and it holds some content.
Missing ==
    [exists |-> FALSE, readable |-> TRUE, writable |-> TRUE,
     kind |-> "object", dict |-> EmptyDict]

LeftBehind ==
    {Missing} \cup
    [exists : {TRUE}, readable : BOOLEAN, writable : BOOLEAN,
     kind : ContentKinds, dict : {EmptyDict}]

NoException == "none"

\* lines 16-24: _load_prefs. A missing file gives {}; an OSError from open
\* and a JSONDecodeError from json.load are caught and give {}; a
\* UnicodeDecodeError (a ValueError) is not caught; a JSON array is returned
\* as the list it is.
LoadPrefs(file) ==
    CASE ~file.exists ->
            [raised |-> NoException, type |-> "dict", dict |-> EmptyDict]
      [] file.exists /\ ~file.readable ->
            [raised |-> NoException, type |-> "dict", dict |-> EmptyDict]
      [] file.exists /\ file.readable /\ file.kind = "not_utf8" ->
            [raised |-> "UnicodeDecodeError", type |-> "none", dict |-> EmptyDict]
      [] file.exists /\ file.readable /\ file.kind = "not_json" ->
            [raised |-> NoException, type |-> "dict", dict |-> EmptyDict]
      [] file.exists /\ file.readable /\ file.kind = "array" ->
            [raised |-> NoException, type |-> "list", dict |-> EmptyDict]
      [] file.exists /\ file.readable /\ file.kind = "object" ->
            [raised |-> NoException, type |-> "dict", dict |-> file.dict]

\* line 41: prefs.get(str(user_id), config.DEFAULT_LANGUAGE); a list has no
\* method get.
GetLangResult(file, user_id) ==
    LET prefs == LoadPrefs(file)
    IN  CASE prefs.raised # NoException ->
                [raised |-> prefs.raised, value |-> Absent]
          [] prefs.raised = NoException /\ prefs.type = "list" ->
                [raised |-> "AttributeError", value |-> Absent]
          [] prefs.raised = NoException /\ prefs.type = "dict" ->
                [raised |-> NoException,
                 value |-> IF prefs.dict[Str(user_id)] = Absent
                           THEN DEFAULT_LANGUAGE
                           ELSE prefs.dict[Str(user_id)]]

\* lines 27-31: _save_prefs: open(_PREFS_FILE, "w") raises an OSError for a
\* file the process may not write, before anything is written; else the
\* file holds the dict, and a file that was there keeps its permissions.
SavePrefs(file, dict) ==
    IF file.exists /\ ~file.writable
    THEN [raised |-> "PermissionError", file |-> file]
    ELSE [raised |-> NoException,
          file |-> [exists |-> TRUE, readable |-> file.readable,
                    writable |-> file.writable, kind |-> "object", dict |-> dict]]

\* lines 52-54: a list takes no string as index.
SetLangResult(file, user_id, lang) ==
    LET prefs == LoadPrefs(file)
    IN  CASE prefs.raised # NoException ->
                [raised |-> prefs.raised, file |-> file]
          [] prefs.raised = NoException /\ prefs.type = "list" ->
                [raised |-> "TypeError", file |-> file]
          [] prefs.raised = NoException /\ prefs.type = "dict" ->
                SavePrefs(file, [prefs.dict EXCEPT ![Str(user_id)] = lang])

NoCall == [op |-> "none", user |-> 0, lang |-> Absent, raised |-> NoException,
           value |-> Absent, before |-> Missing]

InitPrefs ==
    /\ storage = Missing
    /\ latest = [u \in Users |-> Absent]
    /\ lastOp = NoCall

\* What an earlier run, an operator or a fault left in the file before the
\* first call of this process.
StorageLeftBehind ==
    /\ lastOp = NoCall
    /\ storage = Missing
    /\ \E file \in LeftBehind \ {Missing} : storage' = file
    /\ UNCHANGED <<latest, lastOp, detVars, trVars, rnVars>>

\* lines 34-41: get_lang
GetLang(user_id) ==
    /\ lastOp' = [op |-> "get_lang", user |-> user_id, lang |-> Absent,
                  raised |-> GetLangResult(storage, user_id).raised,
                  value |-> GetLangResult(storage, user_id).value,
                  before |-> storage]
    /\ UNCHANGED <<storage, latest, detVars, trVars, rnVars>>

\* lines 44-55: set_lang
SetLang(user_id, lang) ==
    LET r == SetLangResult(storage, user_id, lang)
    IN  /\ storage' = r.file
        /\ latest' = IF r.raised = NoException
                      THEN [latest EXCEPT ![user_id] = lang]
                      ELSE latest
        /\ lastOp' = [op |-> "set_lang", user |-> user_id, lang |-> lang,
                      raised |-> r.raised, value |-> Absent, before |-> storage]
        /\ UNCHANGED <<detVars, trVars, rnVars>>

NextPrefs ==
    \/ StorageLeftBehind
    \/ \E u \in Users : GetLang(u)
    \/ \E u \in Users, lang \in Langs : SetLang(u, lang)

NextRender ==
    \/ RenderStart(ImageNames, Polygons, MaxRenderRegions)
    \/ RenderSample
    \/ RenderFill
    \/ FitTry
    \/ FitFallback
    \/ RenderSave

NextTranslate ==
    \/ TranslateBatchStart
    \/ TranslateBatchCall
    \/ TranslateTextStep

Init ==
    /\ InitPrefs
    /\ InitDetection
    /\ InitTranslate
    /\ InitRender

SpecTranslate == Init /\ [][NextTranslate]_vars

SpecRender == Init /\ [][NextRender]_vars

SpecPrefs == Init /\ [][NextPrefs]_vars

\* Rendering one region at a time, for boxes of every height up to MaxBoxH:
\* the sizes _fit_text_in_bbox goes through depend on the box only.
NextFit ==
    \/ RenderStart({"white"}, FitPolygons, 1)
    \/ RenderSample
    \/ RenderFill
    \/ FitTry
    \/ FitFallback
    \/ RenderSave

SpecFit == Init /\ [][NextFit]_vars

\* render_translated_image is straight-line code run by one thread: once
\* called it goes on as long as it has a step to take.
SpecFitFair == SpecFit /\ WF_vars(NextFit)

\* One detection by one worker of a freshly started process, on any image.
NextDetect ==
    \/ DetectStart("w1")
    \/ GetReaderCheck("w1")
    \/ GetReaderConstruct("w1")
    \/ GetReaderStore("w1")
    \/ GetReaderReturn("w1")
    \/ RunReader("w1", RichResults)

SpecDetect == Init /\ [][NextDetect]_vars

\* Two detections of one image, started at any time on the executor's
\* workers: at once, overlapping, or one after the other has finished.
NextPool ==
    \E t \in Workers :
        \/ DetectStart(t)
        \/ GetReaderCheck(t)
        \/ GetReaderConstruct(t)
        \/ GetReaderStore(t)
        \/ GetReaderReturn(t)
        \/ RunReader(t, PlainResults)

SpecPool == Init /\ [][NextPool]_vars

\* ------------------------------------------------------- detection: claims
\* The families (by index) that produced at least one region without error.
Candidates(t) ==
    {k \in 1..NumGroups :
        /\ outcome[t][Groups[k]].kind = "ok"
        /\ outcome[t][Groups[k]].regions # <<>>}

\* The first family in enumeration order among those with the maximum score.
FirstMaximal(t) ==
    Min({k \in Candidates(t) :
            \A j \in Candidates(t) :
                ~FracGt(Score(outcome[t][Groups[j]].regions),
                        Score(outcome[t][Groups[k]].regions))})

\* C1: when detect_text returns, and some family produced a region without
\* error, the result is the regions and the key of the first family in
\* enumeration order among those with the maximum score, whatever the
\* confidences in [0, 1] are.
C1_ReturnsFirstMaximal ==
    \A t \in Workers :
        (dpc[t] = "done" /\ Candidates(t) # {}) =>
            /\ best_group[t] = Groups[FirstMaximal(t)]
            /\ best_regions[t] = outcome[t][Groups[FirstMaximal(t)]].regions

\* C1, where the code agrees with it: the same, when some family's score is
\* above zero.
C1_FirstMaximalWhenPositive ==
    \A t \in Workers :
        (/\ dpc[t] = "done"
         /\ \E k \in Candidates(t) :
                FracGt(Score(outcome[t][Groups[k]].regions), InitialBestScore)) =>
            /\ best_group[t] = Groups[FirstMaximal(t)]
            /\ best_regions[t] = outcome[t][Groups[FirstMaximal(t)]].regions

\* C2: a family whose reader gave no detection with text is never the best
\* family, during the loop or at its end, and when no family gave one the
\* result is the empty list with the label "unknown".
C2_ZeroRegionFamilyNeverWins ==
    \A t \in Workers :
        /\ \A g \in GroupSet :
               best_group[t] = g =>
                   outcome[t][g].kind = "ok" /\ outcome[t][g].texts > 0
        /\ (\A g \in GroupSet : outcome[t][g].texts = 0) =>
               best_regions[t] = <<>> /\ best_group[t] = "unknown"
        /\ best_group[t] = "unknown" => best_regions[t] = <<>>

\* C2's case: a detection has ended in which one reader returned detections
\* that were all blank and another family won, ...
C2_WitnessBlankFamilyLost ==
    \E t \in Workers :
        /\ dpc[t] = "done"
        /\ best_group[t] \in GroupSet
        /\ \E g \in GroupSet : outcome[t][g].kind = "ok" /\ outcome[t][g].texts = 0

\* ... and one in which every reader ran and none found text.
C2_WitnessAllEmpty ==
    \E t \in Workers :
        /\ dpc[t] = "done"
        /\ \A g \in GroupSet : outcome[t][g].kind = "ok" /\ outcome[t][g].texts = 0
        /\ best_group[t] = "unknown"

\* What each family gave, a failed family counted as giving no region.
ZeroForErrors(t) == [g \in GroupSet |-> outcome[t][g].regions]

\* C3: no error of a reader leaves detect_text; at its end every family has
\* been tried, and the result is that of the same detection with each failed
\* family giving no region.
C3_FailedFamilyIsSkipped ==
    \A t \in Workers :
        /\ dpc[t] # "raised"
        /\ dpc[t] = "done" =>
              /\ \A g \in GroupSet : outcome[t][g].kind # "pending"
              /\ LET r == DetectFold(ZeroForErrors(t), NumGroups)
                 IN  best_regions[t] = r.regions /\ best_group[t] = r.group

\* C3's case: a detection has ended in which one family failed to construct,
\* one failed in inference, and a family tried after a failure won.
C3_WitnessFailureThenWinner ==
    \E t \in Workers :
        /\ dpc[t] = "done"
        /\ \E g \in GroupSet : outcome[t][g].kind = "ctor_error"
        /\ \E g \in GroupSet : outcome[t][g].kind = "run_error"
        /\ \E k \in 2..NumGroups :
              /\ best_group[t] = Groups[k]
              /\ \E j \in 1..(k - 1) : outcome[t][Groups[j]].kind # "ok"

\* C7: for each family the engine is constructed at most once, also when
\* detections run concurrently.
C7_ConstructedAtMostOnce ==
    \A g \in GroupSet : Cardinality(built[g]) <= 1

\* C7, second half: a cached instance is never replaced.
C7_CachedInstanceNeverReplaced ==
    [][\A g \in GroupSet : readers[g] # NoReader => readers'[g] = readers[g]]_vars

\* C8: a detection that starts after the construction of a family's reader
\* has failed never attempts to construct that reader.
C8_NoConstructionAfterFailure ==
    \A t \in Workers :
        dpc[t] = "construct" => Groups[grp[t]] \notin failedBefore[t]

\* C8 as the code has it: a family whose construction failed is never the
\* best family of that detection, and the failure is not remembered: a
\* detection that reaches a family attempts the construction exactly when no
\* reader of the family is cached, earlier failures or not.
C8_FailureSkipsOnlyCurrentDetection ==
    /\ [](\A t \in Workers : \A g \in GroupSet :
             outcome[t][g].kind = "ctor_error" => best_group[t] # g)
    /\ [][\A t \in Workers :
             (dpc[t] = "check" /\ dpc'[t] # "check") =>
                 (dpc'[t] = "construct" <=> readers[Groups[grp[t]]] = NoReader)]_vars

\* C8's case: a detection started after a family's construction had failed
\* is constructing that family's reader again.
C8_WitnessRetry ==
    \E t \in Workers :
        /\ dpc[t] = "construct"
        /\ Groups[grp[t]] \in failedBefore[t]

\* ----------------------------------------------------- translation: claims
\* C4: whatever the backend does, translate_batch returns exactly one string
\* per input text, the i-th being the original i-th text or the backend's
\* answer for it.
C4_SameLengthAndOrder ==
    tpc = "done" =>
        /\ Len(out) = Len(texts)
        /\ \A i \in 1..Len(texts) : out[i] = texts[i] \/ out[i] = backend[i]

\* C5: a blank element comes back unchanged and is never handed to the
\* backend, whether the batch call succeeds or the fallback runs.
C5_BlankUntouchedAndNotSent ==
    tpc = "done" =>
        \A i \in 1..Len(texts) :
            IsBlank(texts[i]) =>
                i <= Len(out) /\ out[i] = texts[i] /\ i \notin sent

\* C5, the half the code keeps: in the fallback a blank element comes back
\* unchanged without a call of the backend for it.
C5_BlankUntouchedInFallback ==
    \A i \in 1..Len(out) :
        (textCalls[i] = 1 /\ IsBlank(texts[i])) =>
            out[i] = texts[i] /\ singleCalls[i] = 0

FailedAnswers == {Raised, NoneValue, <<>>}

\* C6: the backend is called once for the whole batch; when that call raises
\* each element goes through translate_text exactly once, with at most one
\* call of the backend, and an element whose retry raises or gives None or
\* the empty string comes back as the original text; when the batch call
\* answers there is no retry at all.
C6_OneLevelFallbackAbsorbsFailures ==
    /\ tpc \in {"idle", "batch", "fallback", "done"}
    /\ batchCalls <= 1
    /\ (tpc = "fallback" \/ (tpc = "done" /\ texts # <<>>)) => batchCalls = 1
    /\ \A i \in 1..Len(texts) :
          /\ textCalls[i] <= 1
          /\ singleCalls[i] <= textCalls[i]
          /\ (tpc = "fallback" \/ (tpc = "done" /\ textCalls[1] = 1)) =>
                (textCalls[i] = 1 <=> i <= Len(out))
          /\ (i <= Len(out) /\ textCalls[i] = 1 /\ backend[i] \in FailedAnswers) =>
                out[i] = texts[i]
    /\ (tpc = "done" /\ texts # <<>> /\ textCalls[1] = 1) => Len(out) = Len(texts)
    /\ tpc \in {"idle", "batch"} => \A i \in 1..Len(texts) : textCalls[i] = 0

\* C6's case: the batch call raised, and of two texts the retry of one raised
\* and the retry of the other gave a translation.
C6_WitnessFallbackMixed ==
    /\ tpc = "done"
    /\ batchCalls = 1
    /\ \E i, j \in 1..Len(texts) :
          /\ textCalls[i] = 1 /\ backend[i] = Raised /\ out[i] = texts[i]
          /\ textCalls[j] = 1 /\ Truthy(backend[j]) /\ out[j] = backend[j]
          /\ out[j] # texts[j]

\* ------------------------------------------------------- rendering: claims
OutsidePolygons(p) ==
    \A i \in 1..RegionCount : ~InsideQuad(p, region_boxes[i])

OutsideTextBlocks(p) == \A blk \in inked : ~InBlock(p, blk)

SameSize(img, other) ==
    /\ Len(img) = Len(other)
    /\ \A y \in 1..Len(img) : Len(img[y]) = Len(other[y])

\* C9: rendering N regions with N texts returns an image of the size of the
\* input in which every pixel outside all N polygons is as in the input,
\* whatever the shape of the polygons and whether or not the texts fit.
C9_OnlyPolygonsChange ==
    (rpc = "done" /\ Len(region_boxes) = ntexts) =>
        LET input == ImageOf(original)
        IN  /\ SameSize(result.pixels, input)
            /\ \A p \in Pixels :
                  Pix(result.pixels, p) # Pix(input, p) => ~OutsidePolygons(p)

\* C9 as the code has it: the canvas keeps its size, and every pixel outside
\* the polygons rendered so far and outside the text blocks drawn so far is
\* as in the input; the returned PNG holds that canvas.
C9_OnlyPolygonsAndTextBlocksChange ==
    LET input == ImageOf(original)
    IN  /\ SameSize(image, input)
        /\ \A p \in Pixels :
              Pix(image, p) # Pix(input, p) =>
                  \/ \E i \in 1..Min({ri, RegionCount}) : InsideQuad(p, region_boxes[i])
                  \/ ~OutsideTextBlocks(p)
        /\ rpc = "done" => result = [format |-> "PNG", pixels |-> image]

\* C9's case: two regions with two texts have been rendered; a pixel inside a
\* polygon changed, and so did a pixel of a text block outside every polygon.
C9_WitnessTextOutsidePolygon ==
    /\ rpc = "done"
    /\ Len(region_boxes) = 2
    /\ ntexts = 2
    /\ LET input == ImageOf(original)
       IN  /\ \E p \in Pixels :
                 /\ Pix(result.pixels, p) # Pix(input, p)
                 /\ ~OutsidePolygons(p)
           /\ \E p \in Pixels :
                 /\ Pix(result.pixels, p) # Pix(input, p)
                 /\ OutsidePolygons(p)
                 /\ ~OutsideTextBlocks(p)

\* The enclosing rectangle of the polygon, widened by bp pixels on each side.
ExpandedRect(bbox, bp) ==
    ((Min(XCoords(bbox)) - bp)..(Max(XCoords(bbox)) + bp))
        \X ((Min(YCoords(bbox)) - bp)..(Max(YCoords(bbox)) + bp))

\* C10: when the widened rectangle of the polygon lies in the image and has
\* one colour, the sampled background is that colour, whatever lies outside
\* it; when nothing can be sampled the background is white.
C10_UniformSurroundingsGiveThatColor ==
    rpc = "fill" =>
        LET bbox == region_boxes[ri]
            rect == ExpandedRect(bbox, BorderPx)
        IN  /\ (/\ rect \subseteq Pixels
                /\ \A p, q \in rect : Pix(image, p) = Pix(image, q)) =>
                   \A p \in rect : bg_color = Pix(image, p)
            /\ (\A k \in 1..4 : Bands(bbox, BorderPx)[k] = {}) => bg_color = White


\* ---------------------------------------------------- text fitting: claims
\* The call of _fit_text_in_bbox that tried and drawn describe is the one
\* under way, or else the one for the region before the current one.
FitReturned == rpc \in {"sample", "fill", "save", "done"} /\ ri > 1

FitBox == IF rpc = "fit" THEN region_boxes[ri] ELSE region_boxes[ri - 1]

NonDegenerate(bbox) == BoxW(bbox) > 0 /\ BoxH(bbox) > 0

\* n / d rounded to the nearest integer, halves upwards, and cut to an
\* integer, for n >= 0 and d > 0.
RoundNearest(n, d) == (2 * n + d) \div (2 * d)

Truncate(n, d) == n \div d

\* The sizes measured so far are start, start - 1, ... and none is under
\* floor; a search that has not measured yet stands at start; a search in
\* which no size fitted has measured every size down to floor.
SearchRuns(start, floor) ==
    /\ \A i \in 1..Len(tried) :
          tried[i].size = start - (i - 1) /\ tried[i].size >= floor
    /\ (rpc = "fit" /\ tried = <<>>) => font_size = start
    /\ (FitReturned /\ \A i \in 1..Len(tried) : ~tried[i].fits) =>
          Len(tried) = start - floor + 1

\* C13: for a box of height boxH > 0 the search starts at
\* max(8, round(boxH x 0.85)), goes down by one, and has the floor
\* max(6, round(boxH x 0.2)), round being rounding to the nearest integer.
C13_SearchFromRoundedStart ==
    ((rpc = "fit" \/ FitReturned) /\ NonDegenerate(FitBox)) =>
        SearchRuns(Max({8, RoundNearest(BoxH(FitBox) * 85, 100)}),
                   Max({6, RoundNearest(BoxH(FitBox) * 2, 10)}))

\* C13 as the code has it: the start is max(8, boxH x 0.85 cut to an
\* integer) and the floor max(6, boxH x 0.2 cut to an integer); the sizes
\* measured are start, start - 1, ..., stopping at the first that fits and
\* at the floor at the latest.
C13_SearchFromTruncatedStart ==
    ((rpc = "fit" \/ FitReturned) /\ NonDegenerate(FitBox)) =>
        SearchRuns(Max({8, Truncate(BoxH(FitBox) * 85, 100)}),
                   Max({6, Truncate(BoxH(FitBox) * 2, 10)}))

\* C13's case: a box 33 high, where cutting and rounding differ for the
\* start (28.05) and for the floor (6.6): no size fitted and the search
\* went from 28 down to 6.
C13_WitnessWholeRange ==
    /\ FitReturned
    /\ BoxH(FitBox) = 33
    /\ BoxW(FitBox) > 0
    /\ Len(tried) = 23
    /\ tried[1].size = 28
    /\ tried[23].size = 6
    /\ \A i \in 1..23 : ~tried[i].fits

\* What a returned call for a box with width and height has done: drawn
\* once, at the largest size from floor to start that fitted (every larger
\* size was measured and did not fit), or at floor when none fitted.
DrewOnceAtLargestFit(bbox) ==
    LET floor == MinFontSize(BoxH(bbox))
        start == StartFontSize(BoxH(bbox))
    IN  /\ Len(drawn) = 1
        /\ drawn[1] \in floor..start
        /\ \A s \in (drawn[1] + 1)..start :
               \E i \in 1..Len(tried) : tried[i].size = s /\ ~tried[i].fits
        /\ \/ \E i \in 1..Len(tried) : tried[i].size = drawn[1] /\ tried[i].fits
           \/ /\ drawn[1] = floor
              /\ \E i \in 1..Len(tried) : tried[i].size = floor /\ ~tried[i].fits

C14_ReturnedCallDrewOnce ==
    FitReturned =>
        IF NonDegenerate(FitBox)
        THEN DrewOnceAtLargestFit(FitBox)
        ELSE drawn = <<>> /\ tried = <<>>

\* C14: for a box with width and height _fit_text_in_bbox returns, having
\* drawn the text exactly once: at the largest size from floor to start
\* whose block measures at most boxW - 4 by boxH - 4, or at floor if no
\* size fits; for a box without width or height it draws nothing. A call
\* under way has drawn nothing yet and comes to an end.
C14_FitDrawsOnceAndReturns ==
    /\ [](C14_ReturnedCallDrewOnce /\ (rpc = "fit" => drawn = <<>>))
    /\ (rpc = "fit") ~> (rpc # "fit")

\* C14's case: a call that measured two sizes or more and drew at the first
\* that fitted, under the start size.
C14_WitnessFitAfterShrinking ==
    /\ FitReturned
    /\ NonDegenerate(FitBox)
    /\ Len(tried) >= 2
    /\ tried[Len(tried)].fits
    /\ drawn = <<tried[Len(tried)].size>>
    /\ drawn[1] < StartFontSize(BoxH(FitBox))

\* Its other cases: nothing fitted and the text was drawn at the floor; the
\* box had no height and nothing was drawn.
C14_WitnessFallbackAtFloor ==
    /\ FitReturned
    /\ NonDegenerate(FitBox)
    /\ \A i \in 1..Len(tried) : ~tried[i].fits
    /\ drawn = <<MinFontSize(BoxH(FitBox))>>
    /\ inked # {}

C14_WitnessDegenerate ==
    /\ FitReturned
    /\ BoxW(FitBox) > 0
    /\ BoxH(FitBox) = 0
    /\ drawn = <<>>
    /\ inked = {}

\* ------------------------------------------------ preference store: claims
\* The storage states the store takes for empty: the file is missing, the
\* process may not read it, or it does not hold a JSON object.
TakenForEmpty(file) ==
    \/ ~file.exists
    \/ ~file.readable
    \/ file.kind # "object"

\* C11: whatever the state of the storage (file missing, unreadable, or
\* holding something that is not a preference mapping), get_lang returns
\* the default language for every user and set_lang succeeds as on an empty
\* store: it returns and leaves a file that holds the one entry.
C11_BadStorageIsEmptyStore ==
    TakenForEmpty(lastOp.before) =>
        /\ lastOp.op = "get_lang" =>
              lastOp.raised = NoException /\ lastOp.value = DEFAULT_LANGUAGE
        /\ lastOp.op = "set_lang" =>
              /\ lastOp.raised = NoException
              /\ storage.exists
              /\ storage.kind = "object"
              /\ storage.dict = [EmptyDict EXCEPT ![Str(lastOp.user)] = lastOp.lang]

\* What holds of C11: a file that is missing or is not JSON text reads as
\* the empty store, and set_lang then leaves a file with the one entry.
C11_MissingOrNotJsonIsEmptyStore ==
    (~lastOp.before.exists
        \/ (lastOp.before.readable /\ lastOp.before.writable
              /\ lastOp.before.kind = "not_json")) =>
        /\ lastOp.op = "get_lang" =>
              lastOp.raised = NoException /\ lastOp.value = DEFAULT_LANGUAGE
        /\ lastOp.op = "set_lang" =>
              /\ lastOp.raised = NoException
              /\ storage.exists
              /\ storage.kind = "object"
              /\ storage.dict = [EmptyDict EXCEPT ![Str(lastOp.user)] = lastOp.lang]

\* What get_lang is to return for a user: the language of the last
\* set_lang for it, or the default.
Preferred(u) == IF latest[u] = Absent THEN DEFAULT_LANGUAGE ELSE latest[u]

\* C12: get_lang(u) returns the language of the most recent set_lang(u, .),
\* or the default language if there was none, and a set_lang for u leaves
\* what get_lang returns for every other user as it was.
C12_LastSetLangWins ==
    /\ lastOp.op = "get_lang" =>
          lastOp.raised = NoException /\ lastOp.value = Preferred(lastOp.user)
    /\ lastOp.op = "set_lang" =>
          \A v \in Users \ {lastOp.user} :
              GetLangResult(storage, v) = GetLangResult(lastOp.before, v)

\* What holds of C12: while the file is missing or is a readable and
\* writable JSON object, the last call returned, get_lang answers each user
\* with the last language set for it, and a set_lang left the answers for
\* the other users as they were.
C12_LastSetLangWinsOnSoundStorage ==
    (~storage.exists \/ (storage.readable /\ storage.writable /\ storage.kind = "object")) =>
        /\ lastOp.raised = NoException
        /\ \A u \in Users :
              GetLangResult(storage, u) = [raised |-> NoException, value |-> Preferred(u)]
        /\ lastOp.op = "set_lang" =>
              \A v \in Users \ {lastOp.user} :
                  GetLangResult(storage, v) = GetLangResult(lastOp.before, v)

\* Two users have each set a language, one of them twice, and each reads
\* its last one.
C12_WitnessTwoUsers ==
    /\ latest[1] = "ja"
    /\ latest[2] = "es"
    /\ lastOp.op = "get_lang"
    /\ lastOp.user = 1
    /\ lastOp.value = "ja"
    /\ GetLangResult(storage, 2).value = "es"
====
